---- MODULE Spec2Model ----
(***************************************************************************)
(* Model of the voting contract in src/contract_voting_sample.rs: the      *)
(* token custody ledger (stake / withdraw / lock / unlock) and the poll    *)
(* lifecycle (create_poll / cast_vote / end_poll).                         *)
(*                                                                         *)
(* Storage is three keyed regions: the singleton config, the bank bucket   *)
(* keyed by account and the poll bucket keyed by poll id.  Every execute   *)
(* call is one atomic step: on Err the storage writes of the call are      *)
(* discarded, on Ok they are committed.  Option<T> is a sequence of length *)
(* at most one: None is <<>> and Some(x) is <<x>>.                         *)
(***************************************************************************)
EXTENDS Integers, Sequences, FiniteSets, TLC

VARIABLES config, bank, poll, height, result

vars == <<config, bank, poll, height, result>>

\* ---------------------------------------------------------------- bounds
\* Spec: create_poll is offered while poll_count is below MaxPolls
MaxPolls == 2
\* Spec: stake is offered while it keeps config.staked_tokens within MaxStake
MaxStake == 3
\* the block height stops advancing at MaxHeight
MaxHeight == 1
\* SpecTally: the same two caps for the one-poll specification
TallyMaxPolls == 1
TallyMaxStake == 3

\* ------------------------------------------------------------- constants
VOTING_TOKEN == "voting_token"
DEFAULT_END_HEIGHT_BLOCKS == 100800
MIN_STAKE_AMOUNT == 1
MIN_DESC_LENGTH == 3
MAX_DESC_LENGTH == 64
\* number of values of the u8 that `as u8` narrows the quorum value to
U8_MODULUS == 256

\* ----------------------------------------------------------------- option
None == <<>>
Some(x) == <<x>>
is_some(o) == o # None
unwrap(o) == o[1]
unwrap_or(o, d) == IF o = None THEN d ELSE o[1]

coin(amount, denom) == [denom |-> denom, amount |-> amount]

\* ---------------------------------------------------------------- inputs
\* The inputs the claims range over.  The specifications offer the calls
\* with subsets of them (see Next and NextTally); a call that returns Err
\* commits nothing, so the reachable states are those of the Ok calls.
Accounts == {"addr1", "addr2"}
OtherDenom == "other_token"
MaxAmount == TallyMaxStake + 1

\* funds attached to a stake message
FundsInputs ==
    {<<>>}
    \cup {<<coin(n, d)>> : n \in 0..MaxAmount, d \in {VOTING_TOKEN, OtherDenom}}
    \cup {<<coin(1, OtherDenom), coin(1, VOTING_TOKEN)>>}

AmountInputs == {None} \cup {Some(n) : n \in 0..MaxAmount}
WeightInputs == 0..MaxAmount
VoteInputs == {"yes", "no", "abstain"}
PollIdInputs == 0..(MaxPolls + 2)
QuorumInputs == {None, Some(0), Some(50), Some(100), Some(101)}
DescriptionInputs ==
    { "", "ab", "abc",
      "0123456789012345678901234567890123456789012345678901234567890123",
      "0123456789012345678901234567890123456789012345678901234567890123x" }
StartHeightInputs == {None} \cup {Some(h) : h \in 0..(MaxHeight + 1)}
EndHeightInputs == {None} \cup {Some(h) : h \in 0..(MaxHeight + 1)}
\* what the bank module answers to query_balance at end_poll
BalanceInputs == 0..MaxAmount

\* ------------------------------------------------------ errors, responses
Err(e) == [tag |-> "Err", error |-> e]
Ok(messages, attributes) ==
    [tag |-> "Ok", messages |-> messages, attributes |-> attributes]
ResponseDefault == Ok(<<>>, <<>>)

attr(k, v) == <<k, v>>

StdNotFound == [kind |-> "Std::NotFound"]
StdOverflow == [kind |-> "Std::Overflow"]
InsufficientFundsSent == [kind |-> "InsufficientFundsSent"]
PollNoStake == [kind |-> "PollNoStake"]
ExcessiveWithdraw(max_amount) ==
    [kind |-> "ExcessiveWithdraw", max_amount |-> max_amount]
DescriptionTooShort(n) == [kind |-> "DescriptionTooShort", min_desc_length |-> n]
DescriptionTooLong(n) == [kind |-> "DescriptionTooLong", max_desc_length |-> n]
PollQuorumPercentageMismatch(qp) ==
    [kind |-> "PollQuorumPercentageMismatch", quorum_percentage |-> qp]
PollCannotEndInPast == [kind |-> "PollCannotEndInPast"]
PollNotCreator(creator, sender) ==
    [kind |-> "PollNotCreator", creator |-> creator, sender |-> sender]
PollNotInProgress == [kind |-> "PollNotInProgress"]
PoolVotingPeriodNotStarted(start_height) ==
    [kind |-> "PoolVotingPeriodNotStarted", start_height |-> start_height]
PollVotingPeriodNotExpired(expire_height) ==
    [kind |-> "PollVotingPeriodNotExpired", expire_height |-> expire_height]
PollNotExist == [kind |-> "PollNotExist"]
PollSenderVoted == [kind |-> "PollSenderVoted"]
PollInsufficientStake == [kind |-> "PollInsufficientStake"]

\* ------------------------------------------------------------ state types
\* TokenManager::default()
TokenManagerDefault ==
    [token_balance |-> 0, locked_tokens |-> <<>>, participated_polls |-> <<>>]

\* Uint128::checked_sub
checked_sub(a, b) ==
    IF b > a THEN [ok |-> FALSE, val |-> 0] ELSE [ok |-> TRUE, val |-> a - b]

\* the outcome of a call: its result and the storage it leaves
Outcome(res, c, b, p) == [res |-> res, config |-> c, bank |-> b, poll |-> p]
\* an Err discards the writes of the call
Fail(e) == Outcome(Err(e), config, bank, poll)

\* ------------------------------------------------------------ coin_helpers
\* crate::coin_helpers::validate_sent_sufficient_coin: Ok (TRUE) when a sent
\* coin has the required denom and at least the required amount and no other
\* denom is sent with it
validate_sent_sufficient_coin(sent, required) ==
    \/ required = None
    \/ unwrap(required).amount = 0
    \/ /\ \E i \in 1..Len(sent) :
             /\ sent[i].denom = unwrap(required).denom
             /\ sent[i].amount >= unwrap(required).amount
       /\ \A i \in 1..Len(sent) : sent[i].denom = unwrap(required).denom

\* info.funds.iter().find(|coin| coin.denom.eq(&state.denom)).unwrap()
find_funds(funds, denom) ==
    funds[CHOOSE i \in 1..Len(funds) :
              /\ funds[i].denom = denom
              /\ \A j \in 1..(i - 1) : funds[j].denom # denom]

\* ------------------------------------------------------------------ stake
\* stake_voting_tokens that credits the account and not the config
stake_voting_tokens_untracked(sender, funds) ==
    LET token_manager == unwrap_or(bank[sender], TokenManagerDefault)
        state == config
    IN  IF ~validate_sent_sufficient_coin(
                funds, Some(coin(MIN_STAKE_AMOUNT, state.denom)))
        THEN Fail(InsufficientFundsSent)
        ELSE LET sent == find_funds(funds, state.denom)
                 tm2 == [token_manager EXCEPT
                            !.token_balance = @ + sent.amount]
             IN  Outcome(ResponseDefault, state,
                         [bank EXCEPT ![sender] = Some(tm2)], poll)

stake_voting_tokens(sender, funds) ==
    LET token_manager == unwrap_or(bank[sender], TokenManagerDefault)
        state == config
    IN  IF ~validate_sent_sufficient_coin(
                funds, Some(coin(MIN_STAKE_AMOUNT, state.denom)))
        THEN Fail(InsufficientFundsSent)
        ELSE LET sent == find_funds(funds, state.denom)
                 tm2 == [token_manager EXCEPT
                            !.token_balance = @ + sent.amount]
                 state2 == [state EXCEPT
                            !.staked_tokens = @ + sent.amount]
             IN  Outcome(ResponseDefault, state2,
                         [bank EXCEPT ![sender] = Some(tm2)], poll)

\* --------------------------------------------------------------- withdraw
RECURSIVE max_amount_of(_)
\* .iter().map(|(_, v)| *v).max().unwrap_or_default()
max_amount_of(locked_tokens) ==
    IF locked_tokens = <<>> THEN 0
    ELSE LET rest == max_amount_of(Tail(locked_tokens))
             v == Head(locked_tokens)[2]
         IN  IF v > rest THEN v ELSE rest

\* locked_amount taking the amount of the last lock, not of the largest
locked_amount_last(voter, storage_bank) ==
    LET locked_tokens == unwrap(storage_bank[voter]).locked_tokens
    IN  IF locked_tokens = <<>> THEN 0
        ELSE locked_tokens[Len(locked_tokens)][2]

\* locked_amount taking the amount of the first lock, not of the largest
locked_amount_first(voter, storage_bank) ==
    LET locked_tokens == unwrap(storage_bank[voter]).locked_tokens
    IN  IF locked_tokens = <<>> THEN 0 ELSE locked_tokens[1][2]

\* finds the largest locked amount in participated polls
locked_amount(voter, storage_bank) ==
    max_amount_of(unwrap(storage_bank[voter]).locked_tokens)

\* send_tokens answering without the bank message
send_tokens_no_message(to_address, amount, action) ==
    Ok(<<>>, <<attr("action", action), attr("to", to_address)>>)

send_tokens(to_address, amount, action) ==
    Ok(<<[type |-> "BankMsg::Send", to_address |-> to_address, amount |-> amount]>>,
       <<attr("action", action), attr("to", to_address)>>)

withdraw_voting_tokens(sender, amount) ==
    IF bank[sender] = None THEN Fail(PollNoStake)
    ELSE
    LET token_manager == unwrap(bank[sender])
        largest_staked == locked_amount(sender, bank)
        withdraw_amount == unwrap_or(amount, token_manager.token_balance)
    IN  IF largest_staked + withdraw_amount > token_manager.token_balance
        THEN LET max_amount == checked_sub(token_manager.token_balance, largest_staked)
             IN  IF ~max_amount.ok THEN Fail(StdOverflow)
                 ELSE Fail(ExcessiveWithdraw(max_amount.val))
        ELSE LET balance == checked_sub(token_manager.token_balance, withdraw_amount)
                 staked_tokens == checked_sub(config.staked_tokens, withdraw_amount)
             IN  IF ~balance.ok THEN Fail(StdOverflow)
                 ELSE IF ~staked_tokens.ok THEN Fail(StdOverflow)
                 ELSE Outcome(
                        send_tokens(sender,
                                    <<coin(withdraw_amount, config.denom)>>,
                                    "approve"),
                        [config EXCEPT !.staked_tokens = staked_tokens.val],
                        [bank EXCEPT ![sender] =
                            Some([token_manager EXCEPT !.token_balance = balance.val])],
                        poll)

\* ------------------------------------------------------------ create_poll
\* validate_description with the lower limit one too low
validate_description_short(description) ==
    IF Len(description) < MIN_DESC_LENGTH - 1
    THEN Some(DescriptionTooShort(MIN_DESC_LENGTH))
    ELSE IF Len(description) > MAX_DESC_LENGTH
    THEN Some(DescriptionTooLong(MAX_DESC_LENGTH))
    ELSE None

\* validate_description returns an error if the description is invalid
validate_description(description) ==
    IF Len(description) < MIN_DESC_LENGTH
    THEN Some(DescriptionTooShort(MIN_DESC_LENGTH))
    ELSE IF Len(description) > MAX_DESC_LENGTH
    THEN Some(DescriptionTooLong(MAX_DESC_LENGTH))
    ELSE None

\* validate_quorum_percentage returns an error if quorum_percentage > 100
validate_quorum_percentage(quorum_percentage) ==
    IF is_some(quorum_percentage) /\ unwrap(quorum_percentage) > 100
    THEN Some(PollQuorumPercentageMismatch(unwrap(quorum_percentage)))
    ELSE None

\* validate_end_height returns an error if the poll ends in the past
validate_end_height(end_height, block_height) ==
    IF is_some(end_height) /\ block_height >= unwrap(end_height)
    THEN Some(PollCannotEndInPast)
    ELSE None

\* create_poll that stores the poll without saving the raised poll_count
create_poll_count_kept(sender, quorum_percentage, description, start_height, end_height) ==
    IF is_some(validate_quorum_percentage(quorum_percentage))
    THEN Fail(unwrap(validate_quorum_percentage(quorum_percentage)))
    ELSE IF is_some(validate_end_height(end_height, height))
    THEN Fail(unwrap(validate_end_height(end_height, height)))
    ELSE IF is_some(validate_description(description))
    THEN Fail(unwrap(validate_description(description)))
    ELSE
    LET poll_id == config.poll_count + 1
        new_poll == [creator |-> sender,
                     status |-> "InProgress",
                     quorum_percentage |-> quorum_percentage,
                     yes_votes |-> 0,
                     no_votes |-> 0,
                     voters |-> <<>>,
                     voter_info |-> <<>>,
                     end_height |->
                        unwrap_or(end_height, height + DEFAULT_END_HEIGHT_BLOCKS),
                     start_height |-> start_height,
                     description |-> description]
    IN  Outcome(
            Ok(<<>>,
               <<attr("action", "create_poll"),
                 attr("creator", new_poll.creator),
                 attr("poll_id", ToString(poll_id)),
                 attr("quorum_percentage", ToString(unwrap_or(quorum_percentage, 0))),
                 attr("end_height", ToString(new_poll.end_height)),
                 attr("start_height", ToString(unwrap_or(start_height, 0)))>>),
            config, bank,
            [poll EXCEPT ![poll_id] = Some(new_poll)])

create_poll(sender, quorum_percentage, description, start_height, end_height) ==
    IF is_some(validate_quorum_percentage(quorum_percentage))
    THEN Fail(unwrap(validate_quorum_percentage(quorum_percentage)))
    ELSE IF is_some(validate_end_height(end_height, height))
    THEN Fail(unwrap(validate_end_height(end_height, height)))
    ELSE IF is_some(validate_description(description))
    THEN Fail(unwrap(validate_description(description)))
    ELSE
    LET poll_id == config.poll_count + 1
        state == [config EXCEPT !.poll_count = poll_id]
        new_poll == [creator |-> sender,
                     status |-> "InProgress",
                     quorum_percentage |-> quorum_percentage,
                     yes_votes |-> 0,
                     no_votes |-> 0,
                     voters |-> <<>>,
                     voter_info |-> <<>>,
                     end_height |->
                        unwrap_or(end_height, height + DEFAULT_END_HEIGHT_BLOCKS),
                     start_height |-> start_height,
                     description |-> description]
    IN  Outcome(
            Ok(<<>>,
               <<attr("action", "create_poll"),
                 attr("creator", new_poll.creator),
                 attr("poll_id", ToString(poll_id)),
                 attr("quorum_percentage", ToString(unwrap_or(quorum_percentage, 0))),
                 attr("end_height", ToString(new_poll.end_height)),
                 attr("start_height", ToString(unwrap_or(start_height, 0)))>>),
            state, bank,
            [poll EXCEPT ![state.poll_count] = Some(new_poll)])

\* -------------------------------------------------------------- cast_vote
\* has_voted looking at the last voter only
has_voted_last(voter, a_poll) ==
    a_poll.voters # <<>> /\ a_poll.voters[Len(a_poll.voters)] = voter

\* has_voted looking at the first voter only
has_voted_first(voter, a_poll) ==
    a_poll.voters # <<>> /\ a_poll.voters[1] = voter

has_voted(voter, a_poll) ==
    \E i \in 1..Len(a_poll.voters) : a_poll.voters[i] = voter

\* the range check on poll_id at the head of cast_vote
poll_not_exist(poll_id, poll_count) ==
    poll_id = 0 \/ poll_count > poll_id

\* the balance check of cast_vote letting one token too many through
insufficient_stake_off_by_one(token_manager, weight) ==
    token_manager.token_balance + 1 < weight

\* if token_manager.token_balance < weight
insufficient_stake(token_manager, weight) ==
    token_manager.token_balance < weight

cast_vote(sender, poll_id, vote, weight) ==
    IF poll_not_exist(poll_id, config.poll_count) THEN Fail(PollNotExist)
    ELSE IF poll[poll_id] = None THEN Fail(StdNotFound)
    ELSE
    LET a_poll == unwrap(poll[poll_id])
        token_manager == unwrap_or(bank[sender], TokenManagerDefault)
    IN  IF a_poll.status # "InProgress" THEN Fail(PollNotInProgress)
        ELSE IF has_voted(sender, a_poll) THEN Fail(PollSenderVoted)
        ELSE IF insufficient_stake(token_manager, weight)
        THEN Fail(PollInsufficientStake)
        ELSE
        LET tm2 == [token_manager EXCEPT
                       !.participated_polls = Append(@, poll_id),
                       !.locked_tokens = Append(@, <<poll_id, weight>>)]
            poll2 == [a_poll EXCEPT
                       !.voters = Append(@, sender),
                       !.voter_info = Append(@, [vote |-> vote, weight |-> weight])]
        IN  Outcome(
                Ok(<<>>,
                   <<attr("action", "vote_casted"),
                     attr("poll_id", ToString(poll_id)),
                     attr("weight", ToString(weight)),
                     attr("voter", sender)>>),
                config,
                [bank EXCEPT ![sender] = Some(tm2)],
                [poll EXCEPT ![poll_id] = Some(poll2)])

\* --------------------------------------------------------------- end_poll
\* retain that keeps nothing
retain_none(locked_tokens, poll_id) == <<>>

\* unlock entails removing the mapped poll_id, retaining the rest
retain(locked_tokens, poll_id) ==
    LET keep(e) == e[1] # poll_id IN SelectSeq(locked_tokens, keep)

\* unlock voter's tokens in a given poll
unlock_tokens(storage_bank, voter, poll_id) ==
    [storage_bank EXCEPT ![voter] =
        Some([unwrap(@) EXCEPT !.locked_tokens = retain(@, poll_id)])]

\* the unlock loop of end_poll stopping after the first voter
unlock_voters_first(storage_bank, voters, poll_id) ==
    IF voters = <<>> THEN storage_bank
    ELSE unlock_tokens(storage_bank, Head(voters), poll_id)

RECURSIVE unlock_voters(_, _, _)
\* for voter in &a_poll.voters { unlock_tokens(deps.storage, voter, poll_id)?; }
unlock_voters(storage_bank, voters, poll_id) ==
    IF voters = <<>> THEN storage_bank
    ELSE unlock_voters(unlock_tokens(storage_bank, Head(voters), poll_id),
                       Tail(voters), poll_id)

\* the yes tally that looks at the first vote only
yes_weight_first(voter_info) ==
    IF voter_info = <<>> THEN 0
    ELSE IF Head(voter_info).vote = "yes" THEN Head(voter_info).weight ELSE 0

RECURSIVE yes_weight(_)
yes_weight(voter_info) ==
    IF voter_info = <<>> THEN 0
    ELSE (IF Head(voter_info).vote = "yes" THEN Head(voter_info).weight ELSE 0)
         + yes_weight(Tail(voter_info))

RECURSIVE no_weight(_)
no_weight(voter_info) ==
    IF voter_info = <<>> THEN 0
    ELSE (IF Head(voter_info).vote = "yes" THEN 0 ELSE Head(voter_info).weight)
         + no_weight(Tail(voter_info))

tallied_weight(voter_info) == yes_weight(voter_info) + no_weight(voter_info)

\* the quorum value multiplied before it is divided
quorum_of_percent(tallied, staked_weight) ==
    ((tallied * 100) \div staked_weight) % U8_MODULUS

\* let quorum = ((tallied_weight / staked_weight) * 100) as u8
quorum_of(tallied, staked_weight) ==
    ((tallied \div staked_weight) * 100) % U8_MODULUS

\* resolve that asks for the pool balance before it looks at the tally
resolve_pool_first(a_poll, staked_weight) ==
    LET yes == yes_weight(a_poll.voter_info)
        tallied == tallied_weight(a_poll.voter_info)
    IN  IF staked_weight = 0 THEN [err |-> TRUE, passed |-> FALSE, rejected_reason |-> ""]
        ELSE IF tallied = 0
        THEN [err |-> FALSE, passed |-> FALSE, rejected_reason |-> "Quorum not reached"]
        ELSE IF /\ is_some(a_poll.quorum_percentage)
                /\ quorum_of(tallied, staked_weight) < unwrap(a_poll.quorum_percentage)
        THEN [err |-> FALSE, passed |-> FALSE, rejected_reason |-> "Quorum not reached"]
        ELSE IF yes > tallied \div 2
        THEN [err |-> FALSE, passed |-> TRUE, rejected_reason |-> ""]
        ELSE [err |-> FALSE, passed |-> FALSE, rejected_reason |-> "Threshold not reached"]

\* the decision of end_poll once the poll may be ended: the pair
\* <<passed, rejected_reason>>, or the error of an empty pool
resolve(a_poll, staked_weight) ==
    LET yes == yes_weight(a_poll.voter_info)
        tallied == tallied_weight(a_poll.voter_info)
    IN  IF tallied > 0
        THEN IF staked_weight = 0 THEN [err |-> TRUE, passed |-> FALSE, rejected_reason |-> ""]
             ELSE IF /\ is_some(a_poll.quorum_percentage)
                     /\ quorum_of(tallied, staked_weight) < unwrap(a_poll.quorum_percentage)
             THEN [err |-> FALSE, passed |-> FALSE, rejected_reason |-> "Quorum not reached"]
             ELSE IF yes > tallied \div 2
             THEN [err |-> FALSE, passed |-> TRUE, rejected_reason |-> ""]
             ELSE [err |-> FALSE, passed |-> FALSE, rejected_reason |-> "Threshold not reached"]
        ELSE [err |-> FALSE, passed |-> FALSE, rejected_reason |-> "Quorum not reached"]

\* end_poll_checks without the check that the poll is InProgress
end_poll_checks_any_status(a_poll, sender, block_height) ==
    IF a_poll.creator # sender
    THEN Some(PollNotCreator(a_poll.creator, sender))
    ELSE IF /\ is_some(a_poll.start_height)
            /\ unwrap(a_poll.start_height) > block_height
    THEN Some(PoolVotingPeriodNotStarted(unwrap(a_poll.start_height)))
    ELSE IF a_poll.end_height > block_height
    THEN Some(PollVotingPeriodNotExpired(a_poll.end_height))
    ELSE None

\* end_poll_checks letting the poll end one block before its end_height
end_poll_checks_early(a_poll, sender, block_height) ==
    IF a_poll.creator # sender
    THEN Some(PollNotCreator(a_poll.creator, sender))
    ELSE IF a_poll.status # "InProgress" THEN Some(PollNotInProgress)
    ELSE IF /\ is_some(a_poll.start_height)
            /\ unwrap(a_poll.start_height) > block_height
    THEN Some(PoolVotingPeriodNotStarted(unwrap(a_poll.start_height)))
    ELSE IF a_poll.end_height > block_height + 1
    THEN Some(PollVotingPeriodNotExpired(a_poll.end_height))
    ELSE None

\* the four early returns of end_poll, in their order: the error returned,
\* or None when the poll may be ended by this sender at this height
end_poll_checks(a_poll, sender, block_height) ==
    IF a_poll.creator # sender
    THEN Some(PollNotCreator(a_poll.creator, sender))
    ELSE IF a_poll.status # "InProgress" THEN Some(PollNotInProgress)
    ELSE IF /\ is_some(a_poll.start_height)
            /\ unwrap(a_poll.start_height) > block_height
    THEN Some(PoolVotingPeriodNotStarted(unwrap(a_poll.start_height)))
    ELSE IF a_poll.end_height > block_height
    THEN Some(PollVotingPeriodNotExpired(a_poll.end_height))
    ELSE None

\* staked_weight is what query_balance answers for the contract's address
end_poll(sender, poll_id, staked_weight) ==
    IF poll[poll_id] = None THEN Fail(StdNotFound)
    ELSE
    LET a_poll == unwrap(poll[poll_id])
        checks == end_poll_checks(a_poll, sender, height)
    IN  IF is_some(checks) THEN Fail(unwrap(checks))
        ELSE
        LET r == resolve(a_poll, staked_weight)
            poll2 == [a_poll EXCEPT
                        !.status = IF r.passed THEN "Passed" ELSE "Rejected"]
        IN  IF r.err THEN Fail(PollNoStake)
            ELSE Outcome(
                    Ok(<<>>,
                       <<attr("action", "end_poll"),
                         attr("poll_id", ToString(poll_id)),
                         attr("rejected_reason", r.rejected_reason),
                         attr("passed", IF r.passed THEN "true" ELSE "false")>>),
                    config,
                    unlock_voters(bank, a_poll.voters, poll_id),
                    [poll EXCEPT ![poll_id] = Some(poll2)])

\* ---------------------------------------------------------------- actions
\* One execute call that returns Ok: the response is returned and the storage
\* committed.  A call that returns Err commits nothing (it is Fail, which
\* leaves the storage as it was), so it is no step of the system.  result
\* keeps the last such call (what was asked) and its response.
Execute(call, out) ==
    /\ out.res.tag = "Ok"
    /\ result' = [call |-> call, res |-> out.res]
    /\ config' = out.config
    /\ bank' = out.bank
    /\ poll' = out.poll
    /\ UNCHANGED height

StakeVotingTokens(sender, funds) ==
    Execute([op |-> "stake_voting_tokens", sender |-> sender, funds |-> funds],
            stake_voting_tokens(sender, funds))

WithdrawVotingTokens(sender, amount) ==
    Execute([op |-> "withdraw_voting_tokens", sender |-> sender, amount |-> amount],
            withdraw_voting_tokens(sender, amount))

CreatePoll(sender, quorum_percentage, description, start_height, end_height) ==
    Execute([op |-> "create_poll", sender |-> sender,
             quorum_percentage |-> quorum_percentage,
             description |-> description,
             start_height |-> start_height, end_height |-> end_height],
            create_poll(sender, quorum_percentage, description,
                        start_height, end_height))

CastVote(sender, poll_id, vote, weight) ==
    Execute([op |-> "cast_vote", sender |-> sender, poll_id |-> poll_id,
             vote |-> vote, weight |-> weight],
            cast_vote(sender, poll_id, vote, weight))

\* staked_weight, the answer of the balance query, is kept with the call
EndPoll(sender, poll_id, staked_weight) ==
    Execute([op |-> "end_poll", sender |-> sender, poll_id |-> poll_id,
             staked_weight |-> staked_weight],
            end_poll(sender, poll_id, staked_weight))

\* the chain produces the next block
NextBlock ==
    /\ height < MaxHeight
    /\ height' = height + 1
    /\ UNCHANGED <<config, bank, poll, result>>

Init ==
    /\ config = [denom |-> VOTING_TOKEN, owner |-> "creator",
                 poll_count |-> 0, staked_tokens |-> 0]
    /\ bank = [a \in Accounts |-> None]
    /\ poll = [p \in PollIdInputs |-> None]
    /\ height = 0
    /\ result = [call |-> [op |-> "instantiate", sender |-> "creator"],
                 res |-> ResponseDefault]

\* The calls offered with the given input sets, below the given caps.
Calls(max_polls, max_stake, creators, quorums, descriptions, starts, ends, votes, weights) ==
    \/ \E sender \in Accounts, funds \in FundsInputs :
          /\ stake_voting_tokens(sender, funds).config.staked_tokens <= max_stake
          /\ StakeVotingTokens(sender, funds)
    \/ \E sender \in Accounts, amount \in AmountInputs :
          WithdrawVotingTokens(sender, amount)
    \/ \E sender \in creators, qp \in quorums, d \in descriptions,
          sh \in starts, eh \in ends :
          /\ config.poll_count < max_polls
          /\ CreatePoll(sender, qp, d, sh, eh)
    \/ \E sender \in Accounts, poll_id \in PollIdInputs, vote \in votes,
          weight \in weights :
          CastVote(sender, poll_id, vote, weight)
    \/ \E sender \in Accounts, poll_id \in PollIdInputs,
          staked_weight \in BalanceInputs :
          EndPoll(sender, poll_id, staked_weight)
    \/ NextBlock

\* two polls, the votes all "yes" with a positive weight
Next ==
    Calls(MaxPolls, MaxStake, {"addr1"}, {Some(50)}, {"abc"},
          {None}, {None, Some(1)}, {"yes"}, 1..MaxStake)

Spec == Init /\ [][Next]_vars

\* one poll, with every kind of vote and of poll
NextTally ==
    Calls(TallyMaxPolls, TallyMaxStake, {"addr1"}, {None, Some(50)}, {"abc"},
          {None, Some(1)}, {Some(1)}, VoteInputs, 0..TallyMaxStake)

SpecTally == Init /\ [][NextTally]_vars

\* ================================================================= claims
\* what the claims call things
HasRecord(a) == bank[a] # None
Record(a) == unwrap(bank[a])
Exists(p) == poll[p] # None
PollOf(p) == unwrap(poll[p])
\* the largest amount among the account's locks, 0 if it has none
LargestLock(locked_tokens) ==
    IF locked_tokens = <<>> THEN 0
    ELSE CHOOSE m \in {locked_tokens[i][2] : i \in 1..Len(locked_tokens)} :
            \A i \in 1..Len(locked_tokens) : locked_tokens[i][2] <= m
\* a call left the storage as it was
NoMutation(out) == out.config = config /\ out.bank = bank /\ out.poll = poll

\* C1: in every reachable state, for every account with a custody record,
\* a withdrawal of more than token_balance - L (L the largest lock, 0 if
\* none) fails with ExcessiveWithdraw{max_amount = token_balance - L} and
\* changes nothing; a withdrawal of exactly token_balance - L succeeds and
\* leaves token_balance = L.
C1_WithdrawGuard ==
    \A sender \in Accounts, amount \in AmountInputs :
        HasRecord(sender) =>
        LET tm == Record(sender)
            L == LargestLock(tm.locked_tokens)
            a == unwrap_or(amount, tm.token_balance)
            out == withdraw_voting_tokens(sender, amount)
        IN  /\ a > tm.token_balance - L =>
                /\ out.res = Err(ExcessiveWithdraw(tm.token_balance - L))
                /\ NoMutation(out)
            /\ a = tm.token_balance - L =>
                /\ out.res.tag = "Ok"
                /\ unwrap(out.bank[sender]).token_balance = L

\* C1 witness: an account holding two locks of different amounts has just
\* withdrawn a positive amount down to exactly its largest lock.
C1_Witness ==
    /\ result.call.op = "withdraw_voting_tokens"
    /\ result.res.messages[1].amount[1].amount > 0
    /\ LET tm == Record(result.call.sender)
       IN  /\ Len(tm.locked_tokens) = 2
           /\ tm.locked_tokens[1][2] < tm.locked_tokens[2][2]
           /\ tm.token_balance = LargestLock(tm.locked_tokens)

\* a poll is final once it is Passed or Rejected
Final(p) == Exists(p) /\ PollOf(p).status \in {"Passed", "Rejected"}

\* C2: over any sequence of operations a poll is created InProgress, its
\* status changes only from InProgress to Passed or Rejected, and once it is
\* Passed or Rejected no operation changes its status, voters or voter_info
\* (so its status changes at most once).
C2_StatusOnce ==
    [][\A p \in PollIdInputs :
        /\ (~Exists(p) /\ poll'[p] # None) =>
              unwrap(poll'[p]).status = "InProgress"
        /\ Exists(p) =>
              /\ poll'[p] # None
              /\ unwrap(poll'[p]).status # PollOf(p).status =>
                    /\ PollOf(p).status = "InProgress"
                    /\ unwrap(poll'[p]).status \in {"Passed", "Rejected"}
        /\ Final(p) =>
              /\ unwrap(poll'[p]).status = PollOf(p).status
              /\ unwrap(poll'[p]).voters = PollOf(p).voters
              /\ unwrap(poll'[p]).voter_info = PollOf(p).voter_info
      ]_vars

\* C2 witness: a poll with a voter is final and a vote has been cast on
\* another poll since.
C2_Witness ==
    /\ result.call.op = "cast_vote"
    /\ \E p \in PollIdInputs :
          /\ Final(p)
          /\ PollOf(p).voters # <<>>
          /\ p # result.call.poll_id

\* the account has cast a vote on the poll
Voted(a, p) ==
    Exists(p) /\ \E i \in 1..Len(PollOf(p).voters) : PollOf(p).voters[i] = a

\* C3 as stated: for every account and poll it has voted on, any later
\* cast_vote by it on that poll fails with PollSenderVoted, whatever happened
\* in between, and changes no state.
C3_Original ==
    \A sender \in Accounts, p \in PollIdInputs, vote \in VoteInputs,
       weight \in WeightInputs :
        Voted(sender, p) =>
            /\ cast_vote(sender, p, vote, weight).res = Err(PollSenderVoted)
            /\ NoMutation(cast_vote(sender, p, vote, weight))

\* C3 amended: for every account and poll it has voted on, any later
\* cast_vote by it on that poll fails and changes no state, whatever the vote
\* and weight; the error is PollSenderVoted while the poll is InProgress and
\* the range check lets the poll_id through (poll_count <= poll_id),
\* PollNotInProgress once the poll is final, and PollNotExist whenever
\* poll_count > poll_id.
C3_Amended ==
    \A sender \in Accounts, p \in PollIdInputs, vote \in VoteInputs,
       weight \in WeightInputs :
        Voted(sender, p) =>
            LET out == cast_vote(sender, p, vote, weight)
            IN  /\ out.res.tag = "Err"
                /\ NoMutation(out)
                /\ out.res.error =
                     IF config.poll_count > p THEN PollNotExist
                     ELSE IF Final(p) THEN PollNotInProgress
                     ELSE PollSenderVoted

\* C3 witness: the second of two voters on an open poll has staked since its
\* vote, and a new vote by it with another weight is met with PollSenderVoted.
C3_Witness ==
    /\ result.call.op = "stake_voting_tokens"
    /\ \E p \in PollIdInputs :
          /\ Exists(p)
          /\ Len(PollOf(p).voters) = 2
          /\ PollOf(p).voters[2] = result.call.sender
          /\ PollOf(p).voter_info[2].weight = 1
          /\ cast_vote(result.call.sender, p, "no", 2).res = Err(PollSenderVoted)

\* the locks of a sequence that are not for poll p, in their order
LocksNotFor(locked_tokens, p) ==
    LET idx == {i \in 1..Len(locked_tokens) : locked_tokens[i][1] # p}
        nth(k) == CHOOSE i \in idx : Cardinality({j \in idx : j < i}) = k - 1
    IN  [k \in 1..Cardinality(idx) |-> locked_tokens[nth(k)]]

\* C4: a successful end_poll(poll_id) removes, for every voter of the poll,
\* the lock for that poll_id and nothing else: the locks for other polls,
\* every token_balance, every participated_polls, the records of non-voters,
\* all other polls and the config are unchanged.
C4_EndPollFrame ==
    \A sender \in Accounts, p \in PollIdInputs, b \in BalanceInputs :
        LET out == end_poll(sender, p, b)
        IN  out.res.tag = "Ok" =>
            /\ out.config = config
            /\ \A q \in PollIdInputs : q # p => out.poll[q] = poll[q]
            /\ \A a \in Accounts :
                  IF Voted(a, p)
                  THEN /\ out.bank[a] # None
                       /\ unwrap(out.bank[a]).token_balance = Record(a).token_balance
                       /\ unwrap(out.bank[a]).participated_polls
                             = Record(a).participated_polls
                       /\ unwrap(out.bank[a]).locked_tokens
                             = LocksNotFor(Record(a).locked_tokens, p)
                       /\ \E i \in 1..Len(Record(a).locked_tokens) :
                             Record(a).locked_tokens[i][1] = p
                  ELSE out.bank[a] = bank[a]

\* C4 witness: a poll was just ended, one of its voters keeps a lock for
\* another poll, and the other account has a record and did not vote on it.
C4_Witness ==
    /\ result.call.op = "end_poll"
    /\ \E a \in Accounts, o \in Accounts :
          /\ Voted(a, result.call.poll_id)
          /\ Record(a).locked_tokens # <<>>
          /\ ~Voted(o, result.call.poll_id)
          /\ HasRecord(o)
          /\ Record(o).locked_tokens # <<>>

\* C5: in every reachable state no checked subtraction of withdraw can
\* underflow: each account's largest lock is at most its token_balance, every
\* amount that passes the guard is at most token_balance and at most
\* staked_tokens, withdraw never returns the underflow error and no balance
\* is negative.
C5_NoUnderflow ==
    \A sender \in Accounts :
        HasRecord(sender) =>
            /\ Record(sender).token_balance >= 0
            /\ LargestLock(Record(sender).locked_tokens)
                  <= Record(sender).token_balance
            /\ \A amount \in AmountInputs :
                  LET a == unwrap_or(amount, Record(sender).token_balance)
                      out == withdraw_voting_tokens(sender, amount)
                  IN  /\ out.res.tag = "Err" => out.res.error # StdOverflow
                      /\ LargestLock(Record(sender).locked_tokens) + a
                            <= Record(sender).token_balance
                         => /\ a <= Record(sender).token_balance
                            /\ a <= config.staked_tokens
                            /\ out.res.tag = "Ok"
                            /\ unwrap(out.bank[sender]).token_balance >= 0
                            /\ out.config.staked_tokens >= 0

\* C5 witness: an account with a positive lock has just withdrawn all it
\* may, while the other account still holds a balance.
C5_Witness ==
    /\ result.call.op = "withdraw_voting_tokens"
    /\ result.res.messages[1].amount[1].amount > 0
    /\ LargestLock(Record(result.call.sender).locked_tokens) > 0
    /\ Record(result.call.sender).token_balance
          = LargestLock(Record(result.call.sender).locked_tokens)
    /\ config.staked_tokens > Record(result.call.sender).token_balance

\* what fails validation in a create_poll message at the current height
BadQuorum(qp) == qp # None /\ unwrap(qp) > 100
BadEndHeight(eh) == eh # None /\ unwrap(eh) <= height
TooShort(d) == Len(d) < 3
TooLong(d) == Len(d) > 64

\* C6: when create_poll fails validation (quorum_percentage above 100, a
\* supplied end_height not greater than the current height, description
\* shorter than 3 or longer than 64) it returns the error of a validation
\* that fails (a description of length 2 in an otherwise valid message gives
\* DescriptionTooShort{min_desc_length: 3}), no poll record is written and
\* poll_count and the rest of the state are unchanged.
C6_CreatePollValidation ==
    \A qp \in {None, Some(100), Some(101)}, d \in DescriptionInputs,
       eh \in EndHeightInputs,
       from \in {<<"addr1", None>>, <<"addr2", Some(1)>>} :
        LET out == create_poll(from[1], qp, d, from[2], eh)
        IN  /\ (BadQuorum(qp) \/ BadEndHeight(eh) \/ TooShort(d) \/ TooLong(d)) =>
                /\ out.res.tag = "Err"
                /\ \/ BadQuorum(qp) /\
                        out.res.error = PollQuorumPercentageMismatch(unwrap(qp))
                   \/ BadEndHeight(eh) /\ out.res.error = PollCannotEndInPast
                   \/ TooShort(d) /\ out.res.error = DescriptionTooShort(3)
                   \/ TooLong(d) /\ out.res.error = DescriptionTooLong(64)
                /\ out.config.poll_count = config.poll_count
                /\ out.poll = poll
                /\ NoMutation(out)
            /\ (Len(d) = 2 /\ ~BadQuorum(qp) /\ ~BadEndHeight(eh)) =>
                out.res = Err(DescriptionTooShort(3))

\* C6 witness: one poll exists, the height has passed 0, and a create_poll
\* with the description "ab" is refused with DescriptionTooShort while one
\* with end_height 1 is refused with PollCannotEndInPast.
C6_Witness ==
    /\ config.poll_count = 1
    /\ height = 1
    /\ create_poll("addr2", Some(50), "ab", None, None).res
          = Err(DescriptionTooShort(3))
    /\ create_poll("addr2", Some(50), "abc", None, Some(1)).res
          = Err(PollCannotEndInPast)
    /\ create_poll("addr2", Some(50), "abc", None, None).res.tag = "Ok"

\* C7: a successful withdraw of amount a (the whole token_balance when the
\* requested amount is None) lowers the caller's token_balance and the
\* config's staked_tokens by exactly a, emits one transfer of a in the
\* configured denom to the caller, and leaves the caller's locks, the other
\* accounts and the polls unchanged; an account with no locks that withdraws
\* None ends with balance 0 and a transfer of its whole balance.
C7_WithdrawEffect ==
    \A sender \in Accounts, amount \in AmountInputs :
        LET out == withdraw_voting_tokens(sender, amount)
        IN  /\ out.res.tag = "Ok" =>
                LET a == unwrap_or(amount, Record(sender).token_balance)
                    after == unwrap(out.bank[sender])
                IN  /\ after.token_balance = Record(sender).token_balance - a
                    /\ out.config.staked_tokens = config.staked_tokens - a
                    /\ out.config.poll_count = config.poll_count
                    /\ out.config.denom = config.denom
                    /\ out.config.owner = config.owner
                    /\ Len(out.res.messages) = 1
                    /\ out.res.messages[1].type = "BankMsg::Send"
                    /\ out.res.messages[1].to_address = sender
                    /\ out.res.messages[1].amount = <<coin(a, config.denom)>>
                    /\ after.locked_tokens = Record(sender).locked_tokens
                    /\ after.participated_polls = Record(sender).participated_polls
                    /\ \A o \in Accounts \ {sender} : out.bank[o] = bank[o]
                    /\ out.poll = poll
            /\ (HasRecord(sender) /\ Record(sender).locked_tokens = <<>>
                    /\ amount = None) =>
                /\ out.res.tag = "Ok"
                /\ unwrap(out.bank[sender]).token_balance = 0
                /\ out.res.messages[1].amount
                      = <<coin(Record(sender).token_balance, config.denom)>>
                /\ out.config.staked_tokens
                      = config.staked_tokens - Record(sender).token_balance

\* C7 witness: an account without locks has just withdrawn its whole
\* balance of 2 with amount None, while the other account holds a lock.
C7_Witness ==
    /\ result.call.op = "withdraw_voting_tokens"
    /\ result.call.amount = None
    /\ result.res.messages[1].amount[1].amount = 2
    /\ Record(result.call.sender).token_balance = 0
    /\ Record(result.call.sender).locked_tokens = <<>>
    /\ \E o \in Accounts \ {result.call.sender} :
          HasRecord(o) /\ Record(o).locked_tokens # <<>>

\* the rejected_reason attribute of an end_poll response
RejectedReason(res) == res.attributes[3][2]
\* the tallied weight of a poll
Tallied(p) == tallied_weight(PollOf(p).voter_info)
\* the percentage of the pool that voted, multiplied before divided
Percent(tallied, pool_balance) == (tallied * 100) \div pool_balance

\* C8 as stated: at end_poll with tallied > 0 and pool_balance > 0 the quorum
\* value compared with quorum_percentage is (tallied * 100) / pool_balance,
\* an integer in 0..100 whenever tallied <= pool_balance, and the poll is
\* rejected with "Quorum not reached" exactly when quorum_percentage is
\* present and this value is below it.
C8_Original ==
    \A sender \in Accounts, p \in PollIdInputs, b \in BalanceInputs :
        LET out == end_poll(sender, p, b)
        IN  (out.res.tag = "Ok" /\ Tallied(p) > 0 /\ b > 0) =>
            /\ Tallied(p) <= b =>
                /\ quorum_of(Tallied(p), b) = Percent(Tallied(p), b)
                /\ Percent(Tallied(p), b) \in 0..100
            /\ (RejectedReason(out.res) = "Quorum not reached")
                  <=> /\ is_some(PollOf(p).quorum_percentage)
                      /\ Percent(Tallied(p), b)
                            < unwrap(PollOf(p).quorum_percentage)

C10_Original ==
    \A sender \in Accounts, p \in PollIdInputs, vote \in VoteInputs,
       weight \in WeightInputs :
        (p = 0 \/ p > config.poll_count) =>
            /\ cast_vote(sender, p, vote, weight).res = Err(PollNotExist)
            /\ NoMutation(cast_vote(sender, p, vote, weight))

\* the token_balance of an account, 0 while it has no custody record
BalanceOf(a) == unwrap_or(bank[a], TokenManagerDefault).token_balance
\* the poll exists and is InProgress
Open(p) == Exists(p) /\ PollOf(p).status = "InProgress"

\* C11 as stated: for every existing poll whose status is InProgress, a
\* cast_vote by an account that has not yet voted on it, with weight at most
\* the account's token_balance, is accepted in every reachable state: at any
\* block height and however many other polls have been created since.
C11_Original ==
    \A sender \in Accounts, p \in PollIdInputs, vote \in VoteInputs,
       weight \in WeightInputs :
        (Open(p) /\ ~Voted(sender, p) /\ weight <= BalanceOf(sender)) =>
            cast_vote(sender, p, vote, weight).res.tag = "Ok"

\* C12: end_poll finalizes a poll only when the caller is the poll's
\* creator, the poll is InProgress, its start_height (if present) is not
\* above the current height and the current height is at least end_height;
\* otherwise it fails with PollNotCreator, PollNotInProgress,
\* PoolVotingPeriodNotStarted{start_height} or
\* PollVotingPeriodNotExpired{expire_height = end_height}, checked in that
\* order, and leaves the poll and every lock as they were.  Hence no poll is
\* Passed or Rejected at a height below its end_height.
C12_EndPollGate ==
    \A p \in PollIdInputs :
        Exists(p) =>
        /\ Final(p) => height >= PollOf(p).end_height
        /\ \A sender \in Accounts, b \in BalanceInputs :
              LET out == end_poll(sender, p, b)
                  a_poll == PollOf(p)
                  not_started == /\ a_poll.start_height # None
                                 /\ unwrap(a_poll.start_height) > height
              IN  /\ out.res.tag = "Ok" =>
                        /\ sender = a_poll.creator
                        /\ a_poll.status = "InProgress"
                        /\ ~not_started
                        /\ height >= a_poll.end_height
                        /\ unwrap(out.poll[p]).status \in {"Passed", "Rejected"}
                  /\ out.res.tag = "Err" => NoMutation(out)
                  /\ sender # a_poll.creator =>
                        out.res = Err(PollNotCreator(a_poll.creator, sender))
                  /\ (sender = a_poll.creator /\ a_poll.status # "InProgress") =>
                        out.res = Err(PollNotInProgress)
                  /\ (sender = a_poll.creator /\ a_poll.status = "InProgress"
                         /\ not_started) =>
                        out.res = Err(PoolVotingPeriodNotStarted(
                                          unwrap(a_poll.start_height)))
                  /\ (sender = a_poll.creator /\ a_poll.status = "InProgress"
                         /\ ~not_started /\ height < a_poll.end_height) =>
                        out.res = Err(PollVotingPeriodNotExpired(a_poll.end_height))

\* C12 witness: at height 0 an open poll with start_height 1 and end_height 1
\* has a voter holding a lock of 2 for it; its creator's end_poll is refused
\* with PoolVotingPeriodNotStarted{1} and the other account's with
\* PollNotCreator.
C12_Witness ==
    /\ height = 0
    /\ result.call.op = "cast_vote"
    /\ result.call.weight = 2
    /\ LET p == result.call.poll_id
       IN  /\ Open(p)
           /\ PollOf(p).start_height = Some(1)
           /\ PollOf(p).end_height = 1
           /\ Record(result.call.sender).locked_tokens = <<<<p, 2>>>>
           /\ end_poll("addr1", p, 3).res = Err(PoolVotingPeriodNotStarted(1))
           /\ end_poll("addr2", p, 3).res = Err(PollNotCreator("addr1", "addr2"))

\* C13: each successful create_poll assigns poll_id = poll_count + 1, raises
\* poll_count by exactly 1 and stores a poll with status InProgress, empty
\* voters and voter_info, and end_height equal to the supplied value or the
\* current height + 100800 when absent; no other operation changes
\* poll_count, so the stored polls are exactly the ids 1..poll_count and
\* poll_count never decreases.
C13_PollCount ==
    [][/\ config'.poll_count >= config.poll_count
       /\ (result'.call.op = "create_poll" /\ height' = height) =>
             LET id == config.poll_count + 1
             IN  /\ config'.poll_count = id
                 /\ result'.res.attributes[3] = <<"poll_id", ToString(id)>>
                 /\ ~Exists(id)
                 /\ poll'[id] # None
                 /\ unwrap(poll'[id]).status = "InProgress"
                 /\ unwrap(poll'[id]).voters = <<>>
                 /\ unwrap(poll'[id]).voter_info = <<>>
                 /\ unwrap(poll'[id]).end_height =
                       IF result'.call.end_height = None THEN height + 100800
                       ELSE unwrap(result'.call.end_height)
                 /\ \A q \in PollIdInputs \ {id} : poll'[q] = poll[q]
       /\ ~(result'.call.op = "create_poll" /\ height' = height) =>
             config'.poll_count = config.poll_count
       /\ \A q \in PollIdInputs :
             (poll'[q] # None) <=> (1 <= q /\ q <= config'.poll_count)
      ]_vars

\* C13 witness: the second poll was just created at height 1 without an
\* end_height, so it ends at 100801, while the first poll has a voter.
C13_Witness ==
    /\ result.call.op = "create_poll"
    /\ result.call.end_height = None
    /\ config.poll_count = 2
    /\ height = 1
    /\ Open(2)
    /\ PollOf(2).end_height = 100801
    /\ PollOf(1).voters # <<>>

\* the poll may be ended by this sender at the current height
MayEnd(sender, p) ==
    /\ Open(p)
    /\ sender = PollOf(p).creator
    /\ PollOf(p).start_height # None => unwrap(PollOf(p).start_height) <= height
    /\ height >= PollOf(p).end_height
\* the account holds a lock of the amount for the poll
HasLock(locked_tokens, p, w) ==
    \E i \in 1..Len(locked_tokens) : locked_tokens[i] = <<p, w>>
\* the passed attribute of an end_poll response
PassedAttr(res) == res.attributes[4][2]

\* C14: an end_poll that passes its gating checks on a poll whose tallied
\* weight is 0 (no voters, or only zero-weight votes) always sets the poll to
\* Rejected with reason "Quorum not reached", whatever the pool balance and
\* quorum_percentage; when the tallied weight is positive and the observed
\* pool balance is 0, end_poll fails with PollNoStake and the poll stays
\* InProgress with all its voters' locks intact.
C14_EmptyTallyAndPool ==
    \A sender \in Accounts, p \in PollIdInputs, b \in BalanceInputs :
        MayEnd(sender, p) =>
        LET out == end_poll(sender, p, b)
            a_poll == PollOf(p)
        IN  /\ (\A i \in 1..Len(a_poll.voter_info) :
                    a_poll.voter_info[i].weight = 0) =>
                /\ out.res.tag = "Ok"
                /\ unwrap(out.poll[p]).status = "Rejected"
                /\ RejectedReason(out.res) = "Quorum not reached"
                /\ PassedAttr(out.res) = "false"
            /\ ((\E i \in 1..Len(a_poll.voter_info) :
                    a_poll.voter_info[i].weight > 0) /\ b = 0) =>
                /\ out.res = Err(PollNoStake)
                /\ NoMutation(out)
                /\ unwrap(out.poll[p]).status = "InProgress"
                /\ \A i \in 1..Len(a_poll.voters) :
                      HasLock(unwrap(out.bank[a_poll.voters[i]]).locked_tokens,
                              p, a_poll.voter_info[i].weight)

\* C14 witness: a poll without quorum_percentage whose only vote is a "yes"
\* of weight 0 was just ended against an empty pool and is Rejected with
\* "Quorum not reached".
C14_Witness ==
    /\ result.call.op = "end_poll"
    /\ result.call.staked_weight = 0
    /\ LET a_poll == PollOf(result.call.poll_id)
       IN  /\ a_poll.quorum_percentage = None
           /\ a_poll.voter_info = <<[vote |-> "yes", weight |-> 0]>>
           /\ a_poll.status = "Rejected"
    /\ RejectedReason(result.res) = "Quorum not reached"

RECURSIVE SumOfWeights(_, _, _)
\* the sum of the weights of the first n votes whose vote string is in
\* choices
SumOfWeights(voter_info, n, choices) ==
    IF n = 0 THEN 0
    ELSE SumOfWeights(voter_info, n - 1, choices)
         + (IF voter_info[n].vote \in choices THEN voter_info[n].weight ELSE 0)

C16_OneVotePerPoll ==
    /\ \A a \in Accounts :
          HasRecord(a) =>
          \A i, j \in 1..Len(Record(a).locked_tokens) :
              Record(a).locked_tokens[i][1] = Record(a).locked_tokens[j][1]
                  => i = j
    /\ \A p \in PollIdInputs :
          Exists(p) =>
          /\ \A i, j \in 1..Len(PollOf(p).voters) :
                PollOf(p).voters[i] = PollOf(p).voters[j] => i = j
          /\ Len(PollOf(p).voters) = Len(PollOf(p).voter_info)

\* C16 witness: the newest poll has two voters, and the account that just
\* voted on it also holds a lock for the poll before it.
C16_Witness ==
    /\ result.call.op = "cast_vote"
    /\ result.call.poll_id = 2
    /\ Len(PollOf(2).voters) = 2
    /\ Len(Record(result.call.sender).locked_tokens) = 2
    /\ Record(result.call.sender).locked_tokens[1][1] = 1
    /\ Record(result.call.sender).locked_tokens[2][1] = 2

\* C17: in every reachable state, an account's locked_tokens contains an
\* entry (p, w) if and only if poll p is InProgress and the account is in
\* p's voters with recorded weight w: the lock appears at the vote, equals
\* the voter's weight while the poll is open, and is gone once the poll is
\* Passed or Rejected.
C17_LockMirrorsVote ==
    \A a \in Accounts, p \in PollIdInputs, w \in WeightInputs :
        (HasRecord(a) /\ HasLock(Record(a).locked_tokens, p, w))
        <=> /\ Open(p)
            /\ \E i \in 1..Len(PollOf(p).voters) :
                  /\ PollOf(p).voters[i] = a
                  /\ PollOf(p).voter_info[i].weight = w

\* C17 witness: a poll with two voters was just ended; one of them has no
\* lock left, the other still holds its lock of 2 for the other poll, which
\* is open.
C17_Witness ==
    /\ result.call.op = "end_poll"
    /\ Final(result.call.poll_id)
    /\ Len(PollOf(result.call.poll_id).voters) = 2
    /\ \E a \in Accounts, q \in PollIdInputs \ {result.call.poll_id} :
          /\ Open(q)
          /\ Record(a).locked_tokens = <<<<q, 2>>>>
          /\ \A o \in Accounts \ {a} : Record(o).locked_tokens = <<>>

\* the sum of token_balance over all custody records
TotalBalance == BalanceOf("addr1") + BalanceOf("addr2")

\* C18: in every reachable state the config's staked_tokens equals the sum
\* of token_balance over all custody records; cast_vote, create_poll and
\* end_poll never change either side.
C18_StakedIsSum ==
    [][/\ config'.staked_tokens
             = unwrap_or(bank'["addr1"], TokenManagerDefault).token_balance
               + unwrap_or(bank'["addr2"], TokenManagerDefault).token_balance
       /\ config.staked_tokens = TotalBalance
       /\ (result'.call.op \in {"cast_vote", "create_poll", "end_poll"}
              /\ height' = height) =>
             /\ config'.staked_tokens = config.staked_tokens
             /\ \A a \in Accounts :
                   unwrap_or(bank'[a], TokenManagerDefault).token_balance
                       = BalanceOf(a)
      ]_vars

\* C18 witness: an account holding a lock has just withdrawn part of its
\* balance, both accounts keep a positive balance, and staked_tokens is
\* their sum.
C18_Witness ==
    /\ result.call.op = "withdraw_voting_tokens"
    /\ Record(result.call.sender).locked_tokens # <<>>
    /\ BalanceOf("addr1") > 0
    /\ BalanceOf("addr2") > 0
    /\ config.staked_tokens = TotalBalance
    /\ config.staked_tokens < MaxStake

\* C19: in every reachable state and for every InProgress poll, each voter's
\* recorded weight is at most that voter's current token_balance, so the
\* poll's tallied weight (the sum of the voter weights) is at most the
\* config's staked_tokens, even when the same balance backs votes on several
\* concurrent polls and after any withdrawals.
C19_WeightBacked ==
    \A p \in PollIdInputs :
        Open(p) =>
        /\ \A i \in 1..Len(PollOf(p).voters) :
              PollOf(p).voter_info[i].weight <= BalanceOf(PollOf(p).voters[i])
        /\ SumOfWeights(PollOf(p).voter_info, Len(PollOf(p).voter_info),
                        VoteInputs) <= config.staked_tokens

\* C19 witness: an account with votes of weight 1 and 2 on two open polls
\* has just withdrawn down to 2, and the second poll's tallied weight equals
\* staked_tokens.
C19_Witness ==
    /\ result.call.op = "withdraw_voting_tokens"
    /\ Record(result.call.sender).locked_tokens = <<<<1, 1>>, <<2, 2>>>>
    /\ Record(result.call.sender).token_balance = 2
    /\ Open(1)
    /\ Open(2)
    /\ SumOfWeights(PollOf(2).voter_info, Len(PollOf(2).voter_info), VoteInputs)
          = config.staked_tokens

\* C20 as stated: at end_poll, whenever the tallied weight is at least the
\* observed pool balance (pool balance > 0), the quorum value used in the
\* comparison is at least 100, so the poll is never rejected with "Quorum
\* not reached" for any quorum_percentage in 0..100.
C20_Original ==
    \A sender \in Accounts, p \in PollIdInputs, b \in BalanceInputs :
        (MayEnd(sender, p) /\ b > 0 /\ Tallied(p) >= b) =>
            /\ quorum_of(Tallied(p), b) >= 100
            /\ end_poll(sender, p, b).res.tag = "Ok"
            /\ RejectedReason(end_poll(sender, p, b).res) # "Quorum not reached"

====
